---- MODULE Spec2Model ----
(***************************************************************************)
(* A model of exchanges/bittrex/bittrexclient.py (class BittrexClient):    *)
(* the tick normalizer return_candles, the volume aggregator               *)
(* get_volume_from_history, the amount calculator get_buy_sell_all_amount  *)
(* and the order executor life_trade.                                      *)
(*                                                                         *)
(* Python floats are modelled as exact rationals <<numerator, denominator>>*)
(* kept in lowest terms with a positive denominator; rounding of IEEE      *)
(* doubles is outside the model.  Text (pair names) is modelled as a       *)
(* sequence of tokens, a delimiter being a token of its own.               *)
(***************************************************************************)
EXTENDS Integers, Sequences, FiniteSets, TLC

VARIABLES
    \* --- self (BittrexClient instance and class state) ---
    transaction_fee,      \* self.transaction_fee, a rational percentage
    open_orders,          \* BittrexClient.open_orders, the class-level list
    \* --- one call of get_buy_sell_all_amount ---
    amt_pc,               \* "idle" (no call) | "call" | "returned" | "raised"
    amt_wallet, amt_action, amt_pair, amt_rate,   \* the arguments
    amt_result,           \* the returned amount (when amt_pc = "returned")
    \* --- one call of return_candles ---
    cnd_pc,               \* "idle" | "fetch" | "parse" | "interpolate" |
                          \* "returned" | "raised"
    res,                  \* the answer of bittrex.get_ticks
    epoch_start, epoch_end, period,               \* the arguments
    tick_idx,             \* position of "for ticker in tickers"
    got_min_epoch_ticker, raw_tickers,
    ticker_epoch,         \* loop variable of range(epoch_start, epoch_end, period)
    out_tickers,
    cnd_result,           \* what the call returned
    \* --- one call of get_volume_from_history ---
    vol_pc,               \* "idle" | "loop" | "returned"
    history, candle_size, \* the arguments
    epoch_now,            \* int(time.time()) at the call
    hist_idx,             \* position of "for item in history"
    volume,
    \* --- life_trade ---
    trd_pc,               \* "returned" (no call under way) | "loop" | "raised"
    actions,              \* the list passed in, mutated in place
    act_idx,              \* position of the list iterator of "for action in actions"
    calls,                \* calls received by the exchange endpoint in this
                          \* invocation, per operation
    \* --- history variables of life_trade ---
    invocations,          \* number of life_trade calls so far
    input,                \* the list as it was passed in
    processed,            \* the loop's iterations of this invocation
    responses             \* every buy_limit/sell_limit answer so far

amtVars == <<amt_pc, amt_wallet, amt_action, amt_pair, amt_rate, amt_result>>
cndVars == <<cnd_pc, res, epoch_start, epoch_end, period, tick_idx,
             got_min_epoch_ticker, raw_tickers, ticker_epoch, out_tickers,
             cnd_result>>
volVars == <<vol_pc, history, candle_size, epoch_now, hist_idx, volume>>
trdVars == <<trd_pc, actions, act_idx, calls, invocations, input, processed,
             responses>>

\* ------------------------------------------------------------------ bounds
MaxBalance == 3           \* wallet balances range over 0..MaxBalance
MaxRate == 2              \* rates range over -MaxRate..MaxRate
MaxTicks == 3             \* length of the tick list the exchange returns
MaxHistory == 2           \* length of the trade history
MaxActions == 2           \* length of the action list of one life_trade call
MaxInvocations == 2       \* number of life_trade calls

\* --------------------------------------------------------------- rationals
Abs(n) == IF n < 0 THEN -n ELSE n

RECURSIVE Gcd(_, _)
Gcd(a, b) == IF b = 0 THEN a ELSE Gcd(b, a % b)

\* <<n, d>> in lowest terms, d > 0
Norm(r) ==
    LET s == IF r[2] < 0 THEN -1 ELSE 1
        g == Gcd(Abs(r[1]), Abs(r[2]))
    IN  IF r[1] = 0 THEN <<0, 1>> ELSE <<(s * r[1]) \div g, (s * r[2]) \div g>>

Rat(n) == <<n, 1>>
Zero == <<0, 1>>
RMul(a, b) == Norm(<<a[1] * b[1], a[2] * b[2]>>)
RDiv(a, b) == Norm(<<a[1] * b[2], a[2] * b[1]>>)
RSub(a, b) == Norm(<<a[1] * b[2] - b[1] * a[2], a[2] * b[2]>>)
RLeq(a, b) == a[1] * b[2] <= b[1] * a[2]
REq(a, b) == a[1] * b[2] = b[1] * a[2]

\* ------------------------------------------------------------------- text
\* self.pair_delimiter = '-'
pair_delimiter == "-"

\* str.replace(old, new) on a token sequence
replace(s, old, new) == [i \in DOMAIN s |-> IF s[i] = old THEN new ELSE s[i]]

\* str.split(delim): the parts between the delimiter tokens, in order
RECURSIVE split(_, _)
split(s, delim) ==
    IF \A i \in DOMAIN s : s[i] # delim THEN <<s>>
    ELSE LET k == CHOOSE i \in DOMAIN s :
                      s[i] = delim /\ \A j \in 1..(i - 1) : s[j] # delim
         IN  <<SubSeq(s, 1, k - 1)>> \o split(SubSeq(s, k + 1, Len(s)), delim)

\* ------------------------------------------- get_buy_sell_all_amount
Returned(v) == [exc |-> "none", val |-> v]
Raised(e) == [exc |-> e, val |-> Zero]

\* lines 171-177: the amount before the fee
PreFeeAmount_SwappedSymbols(wallet, action, symbol_1, symbol_2, rate) ==
    IF action = "buy" /\ symbol_2 \in DOMAIN wallet
    THEN RDiv(wallet[symbol_2], rate)
    ELSE IF action = "sell" /\ symbol_1 \in DOMAIN wallet
    THEN wallet[symbol_1]
    ELSE Zero

PreFeeAmount(wallet, action, symbol_1, symbol_2, rate) ==
    IF action = "buy" /\ symbol_1 \in DOMAIN wallet
    THEN RDiv(wallet[symbol_1], rate)
    ELSE IF action = "sell" /\ symbol_2 \in DOMAIN wallet
    THEN wallet[symbol_2]
    ELSE Zero

\* lines 182-184: the fee is deducted
NetOfFee_FeeNotPercent(amount) ==
    RSub(amount, RMul(transaction_fee, amount))

NetOfFee(amount) ==
    LET txn_fee_amount == RDiv(RMul(transaction_fee, amount), Rat(100))
    IN  RSub(amount, txn_fee_amount)

get_buy_sell_all_amount(wallet, action, pair, rate) ==
    IF action = "none" THEN Returned(Zero)
    ELSE IF REq(rate, Zero) THEN Returned(Zero)
    ELSE LET parts == split(pair, pair_delimiter) IN
         \* (symbol_1, symbol_2) = tuple(...): unpacking anything but two
         \* parts raises ValueError
         IF Len(parts) # 2 THEN Raised("ValueError")
         ELSE LET amount == PreFeeAmount(wallet, action, parts[1], parts[2], rate)
              IN  IF RLeq(amount, Zero) THEN Returned(Zero)
                  ELSE Returned(NetOfFee(amount))

\* ---- the inputs of one call
Actions == {"buy", "sell", "none"}
BTC == <<"BTC">>
USDT == <<"USDT">>
Symbols == {BTC, USDT}
Balances == {Rat(n) : n \in 0..MaxBalance}
Wallets == UNION {[S -> Balances] : S \in SUBSET Symbols}
Pairs == { <<"BTC", "_", "USDT">>, <<"BTC", "-", "USDT">>,
           <<"USDT", "-", "BTC">>, <<"BTC", "-", "USDT", "-", "ETH">> }
Rates == {Rat(n) : n \in (-MaxRate)..MaxRate}
Fees == {Rat(0), Rat(1), Rat(50), Rat(100), Rat(150)}

AmountCall ==
    /\ amt_pc = "call"
    /\ LET r == get_buy_sell_all_amount(amt_wallet, amt_action, amt_pair, amt_rate)
       IN  /\ amt_pc' = IF r.exc = "none" THEN "returned" ELSE "raised"
           /\ amt_result' = r.val
    /\ UNCHANGED <<amt_wallet, amt_action, amt_pair, amt_rate>>
    /\ UNCHANGED <<transaction_fee, open_orders, cndVars, volVars, trdVars>>

AmtIdle ==
    /\ amt_pc = "idle"
    /\ amt_wallet = <<>>
    /\ amt_action = "none"
    /\ amt_pair = <<>>
    /\ amt_rate = Zero
    /\ amt_result = Zero

\* ------------------------------------------------------- return_candles
\* the extra hours of line 64
MarginHours == 6
SecondsPerHour == 3600
SecondsPerDay == 86400

\* int(time.mktime(time.strptime(T, pattern))): a timestamp text is modelled
\* by its calendar reading <<day, second of the day>>, day 0 being the day
\* of the epoch in the local time zone
Epoch(T) == T[1] * SecondsPerDay + T[2]

\* lines 67-75: the raw ticker made of an exchange tick
RawTicker(ticker, epoch) ==
    [high |-> ticker.H, low |-> ticker.L, open |-> ticker.O,
     close |-> ticker.C, volume |-> ticker.V, quoteVolume |-> ticker.BV,
     date |-> epoch, weightedAverage |-> 0]

\* line 84: the raw tickers not later than the grid point, in list order
Items(raw, t) == SelectSeq(raw, LAMBDA element : element.date <= t)

\* line 89: items[-1]
LastItem_TakesFirst(items) == items[1]

LastItem(items) == items[Len(items)]

\* lines 52-54: no tick list at all
ReturnEmpty ==
    /\ cnd_pc = "fetch"
    /\ res.is_none
    /\ cnd_pc' = "returned"
    /\ cnd_result' = <<>>          \* dict(), an empty container
    /\ UNCHANGED <<res, epoch_start, epoch_end, period, tick_idx,
                   got_min_epoch_ticker, raw_tickers, ticker_epoch, out_tickers>>
    /\ UNCHANGED <<transaction_fee, open_orders, amtVars, volVars, trdVars>>

\* lines 47-50: the tick list is there; the parse loop starts
StartParse ==
    /\ cnd_pc = "fetch"
    /\ ~res.is_none
    /\ cnd_pc' = "parse"
    /\ tick_idx' = 1
    /\ got_min_epoch_ticker' = FALSE
    /\ raw_tickers' = <<>>
    /\ UNCHANGED <<res, epoch_start, epoch_end, period, ticker_epoch,
                   out_tickers, cnd_result>>
    /\ UNCHANGED <<transaction_fee, open_orders, amtVars, volVars, trdVars>>

\* lines 57-77: one iteration of "for ticker in tickers"
ParseTicker ==
    /\ cnd_pc = "parse"
    /\ tick_idx <= Len(res.result)
    /\ LET ticker == res.result[tick_idx]
           epoch == Epoch(ticker.T)
       IN  /\ got_min_epoch_ticker' =
                  (got_min_epoch_ticker \/ epoch <= epoch_start)
           /\ raw_tickers' =
                  IF epoch < epoch_start - MarginHours * SecondsPerHour
                  THEN raw_tickers
                  ELSE Append(raw_tickers, RawTicker(ticker, epoch))
    /\ tick_idx' = tick_idx + 1
    /\ UNCHANGED <<cnd_pc, res, epoch_start, epoch_end, period, ticker_epoch,
                   out_tickers, cnd_result>>
    /\ UNCHANGED <<transaction_fee, open_orders, amtVars, volVars, trdVars>>

\* lines 78-83: the parse loop is over; range(epoch_start, ...) starts
StartInterpolate ==
    /\ cnd_pc = "parse"
    /\ tick_idx > Len(res.result)
    /\ cnd_pc' = "interpolate"
    /\ out_tickers' = <<>>
    /\ ticker_epoch' = epoch_start
    /\ UNCHANGED <<res, epoch_start, epoch_end, period, tick_idx,
                   got_min_epoch_ticker, raw_tickers, cnd_result>>
    /\ UNCHANGED <<transaction_fee, open_orders, amtVars, volVars, trdVars>>

\* lines 83-91: one iteration of the grid loop.  len(items) < 0 never
\* holds; items[-1] of an empty list raises IndexError.
Interpolate ==
    /\ cnd_pc = "interpolate"
    /\ ticker_epoch < epoch_end
    /\ LET items == Items(raw_tickers, ticker_epoch) IN
       IF Len(items) < 0
       THEN /\ ticker_epoch' = ticker_epoch + period
            /\ UNCHANGED <<cnd_pc, out_tickers>>
       ELSE IF Len(items) = 0
       THEN /\ cnd_pc' = "raised"
            /\ UNCHANGED <<ticker_epoch, out_tickers>>
       ELSE /\ out_tickers' = Append(out_tickers,
                   [LastItem(items) EXCEPT !.date = ticker_epoch])
            /\ ticker_epoch' = ticker_epoch + period
            /\ UNCHANGED cnd_pc
    /\ UNCHANGED <<res, epoch_start, epoch_end, period, tick_idx,
                   got_min_epoch_ticker, raw_tickers, cnd_result>>
    /\ UNCHANGED <<transaction_fee, open_orders, amtVars, volVars, trdVars>>

\* line 92: return out_tickers.copy()
ReturnCandles ==
    /\ cnd_pc = "interpolate"
    /\ ticker_epoch >= epoch_end
    /\ cnd_pc' = "returned"
    /\ cnd_result' = out_tickers
    /\ UNCHANGED <<res, epoch_start, epoch_end, period, tick_idx,
                   got_min_epoch_ticker, raw_tickers, ticker_epoch, out_tickers>>
    /\ UNCHANGED <<transaction_fee, open_orders, amtVars, volVars, trdVars>>

CndIdle ==
    /\ cnd_pc = "idle"
    /\ res = [is_none |-> TRUE, result |-> <<>>]
    /\ epoch_start = 0 /\ epoch_end = 0 /\ period = 0
    /\ tick_idx = 0
    /\ got_min_epoch_ticker = FALSE
    /\ raw_tickers = <<>>
    /\ ticker_epoch = 0
    /\ out_tickers = <<>>
    /\ cnd_result = <<>>

\* ---- the inputs of one call
\* an exchange tick, its prices and volumes told apart by their values
Tick(day, sec, o) ==
    [T |-> <<day, sec>>, O |-> o, H |-> o + 10, L |-> o + 20, C |-> o + 30,
     V |-> o + 40, BV |-> o + 50]
\* ticks at 0 s, 150 s and 300 s, one exactly six hours before the epoch and
\* one five minutes earlier still
TickPool == { Tick(0, 0, 1), Tick(0, 300, 2), Tick(0, 150, 3),
              Tick(-1, 64800, 4), Tick(-1, 64500, 5) }
SeqsUpTo(S, n) == UNION {[1..k -> S] : k \in 0..n}
EpochStarts == {0, 150}
EpochEnds == {0, 300, 450, 600}
Periods == {150, 300}

\* ------------------------------------------------ get_volume_from_history
SecondsPerMinute == 60

\* item['TimeStamp'].split('.', 1)[0]: a timestamp text is modelled by its
\* reading <<day, second of the day, tenths of a second>>; the split drops
\* the fraction
time_string(TimeStamp) == <<TimeStamp[1], TimeStamp[2]>>

\* strptime(...).replace(tzinfo=timezone.utc).timestamp()
item_epoch(TimeStamp) == Epoch(time_string(TimeStamp))

\* line 124: the item counts
InCandle_ExclusiveStart(epoch, epoch_candle_start) == epoch > epoch_candle_start

InCandle(epoch, epoch_candle_start) == epoch >= epoch_candle_start

\* line 118
epoch_candle_start == epoch_now - candle_size * SecondsPerMinute

\* lines 120-126: one iteration of "for item in history"
VolumeItem ==
    /\ vol_pc = "loop"
    /\ hist_idx <= Len(history)
    /\ LET item == history[hist_idx] IN
       volume' = IF InCandle(item_epoch(item.TimeStamp), epoch_candle_start)
                 THEN volume + item.Quantity
                 ELSE volume
    /\ hist_idx' = hist_idx + 1
    /\ UNCHANGED <<vol_pc, history, candle_size, epoch_now>>
    /\ UNCHANGED <<transaction_fee, open_orders, amtVars, cndVars, trdVars>>

\* line 127
VolumeReturn ==
    /\ vol_pc = "loop"
    /\ hist_idx > Len(history)
    /\ vol_pc' = "returned"
    /\ UNCHANGED <<history, candle_size, epoch_now, hist_idx, volume>>
    /\ UNCHANGED <<transaction_fee, open_orders, amtVars, cndVars, trdVars>>

VolIdle ==
    /\ vol_pc = "idle"
    /\ history = <<>>
    /\ candle_size = 0
    /\ epoch_now = 0
    /\ hist_idx = 0
    /\ volume = 0

\* ---- the inputs of one call: the clock reads 02:00:00 of day 0; trades
\* 90, 60 and 30 minutes old, one half a second older than 60 minutes, one
\* half a second younger than 60 minutes, and one stamped 10 minutes ahead
\* of the local clock
ClockReadings == {7200}
TimeStamps == { <<0, 1800, 0>>, <<0, 3599, 5>>, <<0, 3600, 0>>, <<0, 3600, 5>>,
                <<0, 5400, 0>>, <<0, 7800, 0>> }
Quantities == {5, 7}
TradeRecords == [TimeStamp : TimeStamps, Quantity : Quantities]
CandleSizes == {30, 60}

\* ------------------------------------------------------------ get_balances
\* lines 101-106: the mapping currency -> available amount built of the
\* exchange's balance records, a later record of a currency replacing an
\* earlier one
RECURSIVE get_balances(_)
get_balances(balances) ==
    IF balances = <<>> THEN <<>>
    ELSE LET n == Len(balances)
             item == balances[n]
             pairs == get_balances(SubSeq(balances, 1, n - 1))
         IN  [c \in DOMAIN pairs \cup {item.Currency} |->
                 IF c = item.Currency THEN item.Available ELSE pairs[c]]

\* -------------------------------------------------------------- life_trade
\* list.remove(x): the first element equal to x is deleted.  An action is
\* an object: its id stands for its identity.
RECURSIVE remove(_, _)
remove(list, x) ==
    IF list = <<>> THEN <<>>
    ELSE IF Head(list) = x THEN Tail(list)
    ELSE <<Head(list)>> \o remove(Tail(list), x)

\* lines 204-212: the action is dropped from the list, no order is placed
IsDropped_ZeroAmountKept(action) == action.action = "none"

IsDropped(action) == action.action = "none" \/ action.amount = Zero

\* lines 218-223 and 231-236: the registry after the exchange's answer
RegistryAfter_AppendsUnconfirmed(registry, ret) == Append(registry, ret.uuid)

RegistryAfter(registry, ret) ==
    IF ~ret.success THEN registry ELSE Append(registry, ret.uuid)

\* lines 194-196: the amount of the action after the all-in resolution
ResolvedAmount(action, wallet, market) ==
    IF action.buy_sell_all
    THEN get_buy_sell_all_amount(wallet, action.action, market, action.rate)
    ELSE Returned(action.amount)

\* what the exchange may answer to get_balances
BalanceAnswers ==
    { <<>>,
      << [Currency |-> BTC, Available |-> Rat(1)],
         [Currency |-> USDT, Available |-> Rat(1)] >> }

\* the exchange numbers the orders it receives
NextUuid == Len(responses) + 1

\* lines 190-238: one iteration of "for action in actions"
ProcessAction ==
    /\ trd_pc = "loop"
    /\ act_idx <= Len(actions)
    /\ \E balances \in BalanceAnswers, success \in BOOLEAN :
         LET market == replace(actions[act_idx].pair, "_", pair_delimiter)
             wallet == get_balances(balances)
             r == ResolvedAmount(actions[act_idx], wallet, market)
             action == [actions[act_idx] EXCEPT !.amount = r.val]
             list == [actions EXCEPT ![act_idx] = action]
             ret == [success |-> success, uuid |-> NextUuid]
             entry(op) == [id |-> action.id, action |-> action.action,
                           amount |-> action.amount, order |-> op]
         IN  IF r.exc # "none"
             THEN /\ trd_pc' = "raised"
                  /\ calls' = [calls EXCEPT !.get_balances = @ + 1]
                  /\ UNCHANGED <<actions, act_idx, open_orders, processed,
                                 responses>>
             ELSE IF IsDropped(action)
             THEN /\ actions' = remove(list, action)
                  /\ act_idx' = act_idx + 1
                  /\ calls' = [calls EXCEPT !.get_balances = @ + 1]
                  /\ processed' = Append(processed, entry("no"))
                  /\ UNCHANGED <<trd_pc, open_orders, responses>>
             ELSE IF action.action = "buy"
             THEN /\ actions' = list
                  /\ act_idx' = act_idx + 1
                  /\ calls' = [calls EXCEPT !.get_balances = @ + 1,
                                            !.buy_limit = @ + 1]
                  /\ open_orders' = RegistryAfter(open_orders, ret)
                  /\ processed' = Append(processed, entry("buy_limit"))
                  /\ responses' = Append(responses, ret)
                  /\ UNCHANGED trd_pc
             ELSE /\ actions' = list
                  /\ act_idx' = act_idx + 1
                  /\ calls' = [calls EXCEPT !.get_balances = @ + 1,
                                            !.sell_limit = @ + 1]
                  /\ open_orders' = RegistryAfter(open_orders, ret)
                  /\ processed' = Append(processed, entry("sell_limit"))
                  /\ responses' = Append(responses, ret)
                  /\ UNCHANGED trd_pc
    /\ UNCHANGED <<invocations, input>>
    /\ UNCHANGED <<transaction_fee, amtVars, cndVars, volVars>>

\* line 239: the iterator is exhausted, the list is returned
LifeTradeReturn ==
    /\ trd_pc = "loop"
    /\ act_idx > Len(actions)
    /\ trd_pc' = "returned"
    /\ UNCHANGED <<actions, act_idx, calls, invocations, input, processed,
                   responses>>
    /\ UNCHANGED <<transaction_fee, open_orders, amtVars, cndVars, volVars>>

\* ---- the inputs of one call
NoCalls == [get_balances |-> 0, buy_limit |-> 0, sell_limit |-> 0]
Internal == <<"BTC", "_", "USDT">>
ActionKinds ==
    { [action |-> "none", amount |-> Rat(1), buy_sell_all |-> FALSE],
      [action |-> "buy", amount |-> Rat(1), buy_sell_all |-> FALSE],
      [action |-> "buy", amount |-> Zero, buy_sell_all |-> FALSE],
      [action |-> "sell", amount |-> Rat(1), buy_sell_all |-> FALSE],
      [action |-> "buy", amount |-> Zero, buy_sell_all |-> TRUE],
      [action |-> "sell", amount |-> Zero, buy_sell_all |-> TRUE] }
TradeAction(id, kind) ==
    [id |-> id, pair |-> Internal, action |-> kind.action,
     amount |-> kind.amount, rate |-> Rat(2),
     buy_sell_all |-> kind.buy_sell_all]

\* lines 149-157: trade() hands a list of actions to life_trade
Invoke ==
    /\ trd_pc = "returned"
    /\ invocations < MaxInvocations
    /\ \E kinds \in SeqsUpTo(ActionKinds, MaxActions) :
         /\ actions' = [i \in DOMAIN kinds |-> TradeAction(i, kinds[i])]
         /\ input' = actions'
    /\ trd_pc' = "loop"
    /\ act_idx' = 1
    /\ calls' = NoCalls
    /\ processed' = <<>>
    /\ invocations' = invocations + 1
    /\ UNCHANGED responses
    /\ UNCHANGED <<transaction_fee, open_orders, amtVars, cndVars, volVars>>

TrdIdle ==
    /\ trd_pc = "returned"
    /\ actions = <<>>
    /\ act_idx = 1
    /\ calls = NoCalls
    /\ invocations = 0
    /\ input = <<>>
    /\ processed = <<>>
    /\ responses = <<>>

\* ------------------------------------------------------- specifications
InitVolume ==
    /\ transaction_fee = Rat(1)
    /\ open_orders = <<>>
    /\ AmtIdle
    /\ CndIdle
    /\ TrdIdle
    /\ vol_pc = "loop"
    /\ history \in SeqsUpTo(TradeRecords, MaxHistory)
    /\ candle_size \in CandleSizes
    /\ epoch_now \in ClockReadings
    /\ hist_idx = 1
    /\ volume = 0

NextVolume == VolumeItem \/ VolumeReturn

InitCandles ==
    /\ transaction_fee = Rat(1)
    /\ open_orders = <<>>
    /\ AmtIdle
    /\ VolIdle
    /\ TrdIdle
    /\ cnd_pc = "fetch"
    /\ res \in {[is_none |-> TRUE, result |-> <<>>]}
               \cup {[is_none |-> FALSE, result |-> t] :
                        t \in SeqsUpTo(TickPool, MaxTicks)}
    /\ epoch_start \in EpochStarts
    /\ epoch_end \in EpochEnds
    /\ period \in Periods
    /\ tick_idx = 0
    /\ got_min_epoch_ticker = FALSE
    /\ raw_tickers = <<>>
    /\ ticker_epoch = 0
    /\ out_tickers = <<>>
    /\ cnd_result = <<>>

NextCandles ==
    \/ ReturnEmpty
    \/ StartParse
    \/ ParseTicker
    \/ StartInterpolate
    \/ Interpolate
    \/ ReturnCandles

InitTrade ==
    /\ transaction_fee = Rat(1)
    /\ open_orders = <<>>
    /\ AmtIdle
    /\ CndIdle
    /\ VolIdle
    /\ TrdIdle

NextTrade == Invoke \/ ProcessAction \/ LifeTradeReturn

InitAmount ==
    /\ transaction_fee \in Fees
    /\ open_orders = <<>>
    /\ CndIdle
    /\ VolIdle
    /\ TrdIdle
    /\ amt_pc = "call"
    /\ amt_wallet \in Wallets
    /\ amt_action \in Actions
    /\ amt_pair \in Pairs
    /\ amt_rate \in Rates
    /\ amt_result = Zero

vars == <<transaction_fee, open_orders, amtVars, cndVars, volVars, trdVars>>

NextAmount == AmountCall

SpecAmount == InitAmount /\ [][NextAmount]_vars

SpecCandles == InitCandles /\ [][NextCandles]_vars

SpecVolume == InitVolume /\ [][NextVolume]_vars

SpecTrade == InitTrade /\ [][NextTrade]_vars

\* --------------------------------------------------- claims: tick normalizer
CndFinished == cnd_pc \in {"returned", "raised"}
CeilDiv(a, b) == (a + b - 1) \div b
GridPoint(k) == epoch_start + (k - 1) * period

\* C2: for period > 0, epoch_start < epoch_end and a non-empty tick feed the
\* call returns exactly ceil((epoch_end - epoch_start) / period) candles,
\* the k-th of them dated epoch_start + k * period (k = 0, 1, ...).
C2_CandleCountAndGrid ==
    (CndFinished /\ ~res.is_none /\ Len(res.result) > 0
        /\ period > 0 /\ epoch_start < epoch_end)
    => /\ cnd_pc = "returned"
       /\ Len(cnd_result) = CeilDiv(epoch_end - epoch_start, period)
       /\ \A k \in DOMAIN cnd_result : cnd_result[k].date = GridPoint(k)

\* C4: with no tick list, or a tick list of zero elements, the call returns
\* an empty result and raises nothing, whatever the grid.
C4_EmptyFeedEmptyResult ==
    (CndFinished /\ (res.is_none \/ Len(res.result) = 0))
    => (cnd_pc = "returned" /\ cnd_result = <<>>)

\* the ticks of the feed that are retained and not later than t
Eligible(t) ==
    { i \in DOMAIN res.result :
        /\ Epoch(res.result[i].T) >= epoch_start - 6 * 3600
        /\ Epoch(res.result[i].T) <= t }
CarriesFieldsOf(candle, tick) ==
    /\ candle.open = tick.O /\ candle.high = tick.H /\ candle.low = tick.L
    /\ candle.close = tick.C /\ candle.volume = tick.V
    /\ candle.quoteVolume = tick.BV
Ascending ==
    \A i, j \in DOMAIN res.result :
        i < j => Epoch(res.result[i].T) <= Epoch(res.result[j].T)

Ids(list) == [k \in DOMAIN list |-> list[k].id]
OrderOps == {"buy_limit", "sell_limit"}

\* C1: the list life_trade returns holds no action whose action is none and
\* none whose amount is 0, wherever such an action stood in the input.
C1_NoOpsRemoved ==
    (trd_pc = "returned" /\ invocations > 0)
    => \A k \in DOMAIN actions :
          actions[k].action # "none" /\ actions[k].amount # Zero

\* C6: within one invocation every action of the input list is processed,
\* in list order, and each buy/sell action with a non-zero resolved amount
\* gets exactly one buy_limit/sell_limit call, whatever happened to the
\* actions before it.
C6_WholeBatchProcessed ==
    (trd_pc = "returned" /\ invocations > 0)
    => /\ Ids(processed) = Ids(input)
       /\ \A k \in DOMAIN processed :
             (processed[k].action \in {"buy", "sell"}
                 /\ processed[k].amount # Zero)
             => processed[k].order \in OrderOps

\* the uuids of the confirmed answers, in the order the answers came
RECURSIVE ConfirmedUuids(_)
ConfirmedUuids(rs) ==
    IF rs = <<>> THEN <<>>
    ELSE (IF Head(rs).success THEN <<Head(rs).uuid>> ELSE <<>>)
         \o ConfirmedUuids(Tail(rs))
IsPrefix(a, b) == Len(a) <= Len(b) /\ SubSeq(b, 1, Len(a)) = a

\* C5: after every step of every life_trade invocation the open-orders
\* registry is exactly the sequence, in submission order, of the uuids of
\* the buy_limit/sell_limit answers with success = true; a rejected
\* submission leaves it unchanged and no entry is ever removed or reordered.
C5_RegistryIsConfirmedUuids ==
    [][ /\ open_orders' = ConfirmedUuids(responses')
        /\ IsPrefix(open_orders, open_orders')
        /\ (Len(responses') = Len(responses) + 1
              /\ ~responses'[Len(responses')].success)
           => open_orders' = open_orders ]_vars

\* a second invocation has added a confirmed order after a rejected one
C5_Witness ==
    /\ invocations = 2
    /\ trd_pc = "returned"
    /\ Len(responses) = 3
    /\ ~responses[2].success
    /\ open_orders = <<1, 3>>

\* the step just taken processed an action whose amount is 0
ZeroAmountStep ==
    /\ Len(processed') = Len(processed) + 1
    /\ processed'[Len(processed')].amount = Zero
TotalCalls(c) == c.get_balances + c.buy_limit + c.sell_limit

\* C7 (as stated): processing an action whose amount is 0 leaves the call
\* count of the endpoint, taken over get_balances, buy_limit and sell_limit,
\* unchanged.
C7_NoEndpointCall ==
    [][ZeroAmountStep => TotalCalls(calls') = TotalCalls(calls)]_vars

\* C7 (amended): processing an action whose amount is 0 issues no buy_limit
\* and no sell_limit call and leaves the registry alone; it does issue the
\* one get_balances call that every processed action starts with.
C7_NoOrderCall ==
    [][ZeroAmountStep =>
          /\ calls'.buy_limit = calls.buy_limit
          /\ calls'.sell_limit = calls.sell_limit
          /\ calls'.get_balances = calls.get_balances + 1
          /\ responses' = responses
          /\ open_orders' = open_orders]_vars

\* after a buy order was placed, an all-in sell that resolved to 0 (the
\* wallet held nothing) has been processed and dropped from the list
C7_Witness ==
    /\ Len(processed) = 2
    /\ processed[1].order = "buy_limit"
    /\ processed[2].amount = Zero
    /\ processed[2].action = "sell"
    /\ input[2].buy_sell_all
    /\ calls = [get_balances |-> 2, buy_limit |-> 1, sell_limit |-> 0]
    /\ Ids(actions) = <<1>>

\* ------------------------------------------------ claims: volume aggregator
\* a record's timestamp and the window bounds, in tenths of a second
Tenths(TimeStamp) == (TimeStamp[1] * 86400 + TimeStamp[2]) * 10 + TimeStamp[3]
WindowStart == (epoch_now - candle_size * 60) * 10
WindowEnd == epoch_now * 10

RECURSIVE QuantityOf(_, _)
QuantityOf(h, I) ==
    IF I = {} THEN 0
    ELSE LET i == CHOOSE x \in I : TRUE
         IN  h[i].Quantity + QuantityOf(h, I \ {i})

InWindow(ts) == WindowStart <= Tenths(ts) /\ Tenths(ts) <= WindowEnd
NotBeforeWindow(ts) == WindowStart <= Tenths(ts)

\* C10 (as stated): the call returns the sum of the quantities of exactly
\* the records stamped within [now - window_minutes * 60, now]; a record
\* older than the lower bound or later than now contributes nothing.
C10_SumWithinWindow ==
    vol_pc = "returned" => volume = QuantityOf(history,
            {i \in DOMAIN history : InWindow(history[i].TimeStamp)})

\* C10 (amended): the call returns the sum of the quantities of exactly the
\* records stamped at or after now - window_minutes * 60 (lower bound
\* inclusive), in any input order; a record stamped later than now is
\* counted too.
C10_SumFromWindowStart ==
    vol_pc = "returned" => volume = QuantityOf(history,
            {i \in DOMAIN history : NotBeforeWindow(history[i].TimeStamp)})

\* records at now - 30 min (5) and now - 90 min (7), 60-minute window: 5
C10_Witness ==
    /\ vol_pc = "returned"
    /\ candle_size = 60
    /\ history = << [TimeStamp |-> <<0, 5400, 0>>, Quantity |-> 5],
                    [TimeStamp |-> <<0, 1800, 0>>, Quantity |-> 7] >>
    /\ volume = 5

\* ------------------------------------------------ claims: amount calculator
AmtFinished == amt_pc \in {"returned", "raised"}
IsInternalForm(pair) == Len(pair) = 3 /\ pair[2] = "_"
IsExchangeForm(pair) == Len(pair) = 3 /\ pair[2] = pair_delimiter
BaseOf(pair) == <<pair[1]>>
QuoteOf(pair) == <<pair[3]>>
\* q reduced by fee_percent percent of itself
ReducedByFee(q) == RMul(q, RDiv(RSub(Rat(100), transaction_fee), Rat(100)))
Positive(r) == ~RLeq(r, Zero)

\* what the claim promises of a finished call on pair BASE?QUOTE
AmountAsClaimed ==
    /\ amt_pc = "returned"
    /\ (amt_action = "buy" /\ BaseOf(amt_pair) \in DOMAIN amt_wallet)
          => REq(amt_result,
                 ReducedByFee(RDiv(amt_wallet[BaseOf(amt_pair)], amt_rate)))
    /\ (amt_action = "sell" /\ QuoteOf(amt_pair) \in DOMAIN amt_wallet)
          => REq(amt_result, ReducedByFee(amt_wallet[QuoteOf(amt_pair)]))
    /\ (amt_action = "buy" /\ BaseOf(amt_pair) \notin DOMAIN amt_wallet)
          => amt_result = Zero
    /\ (amt_action = "sell" /\ QuoteOf(amt_pair) \notin DOMAIN amt_wallet)
          => amt_result = Zero

\* C8 (as stated): called with a pair in the internal form BASE_QUOTE, a
\* non-zero rate and action buy or sell, the call returns balances[BASE]/rate
\* (buy) or balances[QUOTE] (sell) reduced by fee_percent percent of itself,
\* and 0 with the asset absent.
C8_InternalFormPair ==
    (AmtFinished /\ IsInternalForm(amt_pair) /\ ~REq(amt_rate, Zero)
        /\ amt_action \in {"buy", "sell"})
    => AmountAsClaimed

\* C8 (amended): the same result, for a pair in the exchange form BASE-QUOTE
\* and, for buy, a positive rate; the internal form BASE_QUOTE raises
\* ValueError as soon as the action is not none and the rate is not zero.
C8_ExchangeFormPair ==
    /\ (AmtFinished /\ IsExchangeForm(amt_pair) /\ ~REq(amt_rate, Zero)
          /\ amt_action \in {"buy", "sell"}
          /\ (amt_action = "buy" => Positive(amt_rate)))
       => AmountAsClaimed
    /\ (AmtFinished /\ IsInternalForm(amt_pair) /\ ~REq(amt_rate, Zero)
          /\ amt_action \in {"buy", "sell"})
       => amt_pc = "raised"

\* balances {'BTC': 1.0}, buy, 'BTC-USDT', rate 2.0, fee 1.0 gives 0.495
C8_Witness ==
    /\ amt_pc = "returned"
    /\ amt_wallet = (BTC :> Rat(1))
    /\ amt_action = "buy"
    /\ amt_pair = <<"BTC", "-", "USDT">>
    /\ amt_rate = Rat(2)
    /\ transaction_fee = Rat(1)
    /\ REq(amt_result, <<495, 1000>>)

\* the pre-fee amount in the claim's words (a pair that does not split in
\* two has none)
ClaimedPreFee ==
    LET parts == split(amt_pair, pair_delimiter) IN
    IF Len(parts) # 2 THEN Zero
    ELSE IF amt_action = "buy" /\ parts[1] \in DOMAIN amt_wallet
    THEN RDiv(amt_wallet[parts[1]], amt_rate)
    ELSE IF amt_action = "sell" /\ parts[2] \in DOMAIN amt_wallet
    THEN amt_wallet[parts[2]]
    ELSE Zero

NonNegativeAmount ==
    amt_pc = "returned" =>
        /\ RLeq(Zero, amt_result)
        /\ (amt_action = "none" \/ REq(amt_rate, Zero)) => amt_result = Zero
        /\ (amt_action # "none" /\ ~REq(amt_rate, Zero)
              /\ RLeq(ClaimedPreFee, Zero)) => amt_result = Zero

\* C9 (as stated): for every action, pair, rate, wallet of non-negative
\* balances and every configured fee percentage, the returned amount is >= 0,
\* and exactly 0 for action none, rate 0 or a pre-fee amount <= 0.
C9_NeverNegative == NonNegativeAmount

\* C9 (amended): the same, for a configured fee percentage below 100.
C9_NeverNegativeFeeBelow100 ==
    (RLeq(Zero, transaction_fee) /\ ~RLeq(Rat(100), transaction_fee))
        => NonNegativeAmount

\* a fee of 50 percent is deducted from a positive pre-fee amount
C9_Witness ==
    /\ amt_pc = "returned"
    /\ transaction_fee = Rat(50)
    /\ amt_action = "sell"
    /\ Positive(ClaimedPreFee)
    /\ Positive(amt_result)
    /\ REq(amt_result, RDiv(ClaimedPreFee, Rat(2)))

====
